---- MODULE Spec2Model ----
(***************************************************************************)
(* Model of src/src/installed_service_handler.py: InstalledServiceHandler, *)
(* the per-service supervisor that watches a service directory, debounces  *)
(* qualifying filesystem events with a threading.Timer and reloads the     *)
(* docker compose of the service (down, _get_docker, up).                  *)
(*                                                                         *)
(* Threads: the caller's thread (start, stop, up, down), the watchdog      *)
(* observer thread (on_any_event) and one thread per started Timer         *)
(* (reload_service_compose).  A reload is modelled line group by line      *)
(* group so that events and other reloads interleave with it.              *)
(***************************************************************************)
EXTENDS Integers, Sequences, FiniteSets, TLC

\* ---- bounds of the model ------------------------------------------------
MaxTimers == 3      \* Timer objects created by on_any_event in one behaviour
MaxTime == 4        \* clock ticks (seconds) in one behaviour
MaxDepth == 2       \* path segments of an event below the service directory
NContainers == 2    \* containers of one compose project

\* ---- configuration given at construction --------------------------------
WaitSeconds == 2
ServicePath == <<"iombian-services", "foo">>

None == "None"
ACCEPTED_FILES == {"docker-compose.yaml", "docker-compose.yml", ".env"}
ACCEPTED_EVENTS == {"modified", "created", "deleted"}

ComposeNames == {"docker-compose.yaml", "docker-compose.yml"}
Containers == 1..NContainers

\* service_path.split("/")[-1]
service_name == ServicePath[Len(ServicePath)]
wait_seconds == WaitSeconds

\* ---- filesystem events delivered by watchdog ----------------------------
FileNames == ACCEPTED_FILES \cup {"notes.txt"}
DirNames == {"subdir", service_name}
EventTypes == ACCEPTED_EVENTS \cup {"moved", "closed"}

RECURSIVE RelPaths(_)
RelPaths(n) ==
    IF n = 1 THEN {<<x>> : x \in FileNames \cup DirNames}
    ELSE RelPaths(n - 1)
         \cup {<<d>> \o p : d \in DirNames, p \in {q \in RelPaths(n - 1) : Len(q) = n - 1}}

Events == [is_directory : BOOLEAN, rel : RelPaths(MaxDepth), event_type : EventTypes]
NoEvent == [is_directory |-> FALSE, rel |-> <<>>, event_type |-> None]

\* the events on files directly in the service directory
FirstLevelEvents == {e \in Events : ~e.is_directory /\ Len(e.rel) = 1}

\* pathlib.Path(event.src_path): the service path followed by the relative part
src_path(e) == ServicePath \o e.rel

VARIABLES
    dirExists,      \* the service directory exists on disk
    disk,           \* compose files now in the service directory (first level)
    files,          \* self.files: os.listdir(service_path) taken in __init__
    compose_file,   \* self.compose_file
    docker,         \* self.docker: [gen, file], gen = 0 is None
    clients,        \* number of DockerClient objects created so far
    timer,          \* self.timer: index into timers, 0 is None
    timers,         \* every Timer created: its thread and its reload
    observer,       \* self.observer: "init", "running", "failed", "stopped"
    now,            \* wall clock, seconds
    running,        \* docker runtime: running containers per compose-file label
    calls,          \* orchestration calls issued so far
    propagated,     \* methods an exception has propagated out of
    entered,        \* which of up() and down() the owner has called
    startLog,       \* methods start() invoked in its except branch
    lastDown,       \* what the last down() did
    lastEvt,        \* time of the last qualifying event, -1 if none
    firesSinceEvt,  \* timers fired since the last qualifying event
    lastEvent       \* the last event handed to on_any_event (SpecFilter only)

vars == <<dirExists, disk, files, compose_file, docker, clients, timer, timers,
          observer, now, running, calls, propagated, entered, startLog,
          lastDown, lastEvt, firesSinceEvt, lastEvent>>

progVars == <<compose_file, docker, clients, timer, timers, running, calls,
              propagated, lastDown, lastEvt, firesSinceEvt>>

NoDocker == [gen |-> 0, file |-> None]
NoDown == [label |-> None, bound |-> None, fileGone |-> FALSE, failAt |-> -1,
           returned |-> {}, stopTried |-> {}, removeTried |-> {}, removed |-> {},
           pruneTried |-> FALSE, raised |-> FALSE]

\* ---- binding resolution -------------------------------------------------
\* the two names tried in the other order
get_compose_file_name_yml_first(fs) ==
    IF "docker-compose.yml" \in fs THEN "docker-compose.yml"
    ELSE IF "docker-compose.yaml" \in fs THEN "docker-compose.yaml"
    ELSE None

get_compose_file_name(fs) ==
    IF "docker-compose.yaml" \in fs THEN "docker-compose.yaml"
    ELSE IF "docker-compose.yml" \in fs THEN "docker-compose.yml"
    ELSE None

\* _get_docker: sets self.compose_file and returns a new DockerClient or None
get_docker(fs, n) ==
    LET cf == get_compose_file_name(fs)
    IN  [compose_file |-> cf,
         docker |-> IF cf # None THEN [gen |-> n + 1, file |-> cf] ELSE NoDocker,
         clients |-> IF cf # None THEN n + 1 ELSE n]

\* ---- up() and down() ----------------------------------------------------
\* up() without the "if self.docker" of line 67
up_unguarded(ok) ==
    LET success == ok /\ dirExists /\ docker.file \in disk
    IN  [running |-> IF success THEN [running EXCEPT ![docker.file] = Containers]
                     ELSE running,
         calls |-> calls \cup {"compose_up"},
         failed |-> ~success,
         raised |-> FALSE]

\* up() without the try / except of lines 68-74
up_uncaught(ok) ==
    IF docker.gen = 0
    THEN [running |-> running, calls |-> calls, failed |-> FALSE, raised |-> FALSE]
    ELSE LET success == ok /\ dirExists /\ docker.file \in disk
         IN  [running |-> IF success THEN [running EXCEPT ![docker.file] = Containers]
                          ELSE running,
              calls |-> calls \cup {"compose_up"},
              failed |-> ~success,
              raised |-> ~success]

\* up(): ok is the outcome of "docker compose up" (it also fails when the
\* compose file is no longer on disk); any exception is swallowed (bare except)
up(ok) ==
    IF docker.gen = 0
    THEN [running |-> running, calls |-> calls, failed |-> FALSE, raised |-> FALSE]
    ELSE LET success == ok /\ dirExists /\ docker.file \in disk
         IN  [running |-> IF success THEN [running EXCEPT ![docker.file] = Containers]
                          ELSE running,
              calls |-> calls \cup {"compose_up"},
              failed |-> ~success,
              raised |-> FALSE]

\* the k-th smallest element of a set of containers (order of the ps result)
RECURSIVE Nth(_, _)
Nth(S, k) ==
    LET m == CHOOSE x \in S : \A y \in S : x <= y
    IN  IF k = 1 THEN m ELSE Nth(S \ {m}, k - 1)

\* the label down() filters on: f"{service_path}/{compose_file}"
Label(cf) == cf

\* down(): f is the index of the orchestration call that raises, -1 for none:
\* 0 is ps, 2k-1 / 2k are stop / remove of the k-th container, 2n+1 is prune.
\* Nothing in down() catches, so the first failure ends it.
down_with(lab, f) ==
    IF docker.gen = 0
    THEN [running |-> running, calls |-> calls, raised |-> FALSE, log |-> lastDown]
    ELSE LET ret == IF f = 0 \/ lab \notin ComposeNames THEN {} ELSE running[lab]
             n == Cardinality(ret)
             reached(op) == f = -1 \/ op <= f
             done(op) == f = -1 \/ op < f
             stopTried == {Nth(ret, k) : k \in {j \in 1..n : reached(2 * j - 1)}}
             stopped == {Nth(ret, k) : k \in {j \in 1..n : done(2 * j - 1)}}
             removeTried == {Nth(ret, k) : k \in {j \in 1..n : reached(2 * j)}}
             removed == {Nth(ret, k) : k \in {j \in 1..n : done(2 * j)}}
             pruneTried == reached(2 * n + 1)
         IN  [running |-> IF lab \in ComposeNames
                          THEN [running EXCEPT ![lab] = @ \ stopped]
                          ELSE running,
              calls |-> calls \cup {"ps"}
                        \cup (IF stopTried # {} THEN {"stop"} ELSE {})
                        \cup (IF removeTried # {} THEN {"remove"} ELSE {})
                        \cup (IF pruneTried THEN {"prune"} ELSE {}),
              raised |-> f # -1,
              log |-> [label |-> lab, bound |-> docker.file,
                       fileGone |-> ~(dirExists /\ docker.file \in disk),
                       failAt |-> f,
                       returned |-> ret, stopTried |-> stopTried,
                       removeTried |-> removeTried, removed |-> removed,
                       pruneTried |-> pruneTried, raised |-> f # -1]]

\* down() taking the compose file from the directory as it is now
down_from_disk(f) ==
    down_with(Label(get_compose_file_name(IF dirExists THEN disk ELSE {})), f)

\* down(): the label is built from self.service_path and self.compose_file
down(f) == down_with(Label(compose_file), f)

\* the failure points down() can meet in the current state
FailPoints ==
    IF docker.gen = 0 THEN {-1}
    ELSE -1..(2 * Cardinality(IF compose_file \in ComposeNames
                              THEN running[compose_file] ELSE {}) + 1)

\* ---- __init__ -----------------------------------------------------------
\* The state after construction: files is the listing of the directory, the
\* binding is resolved from it, no timer, observer created but not started.
\* A stack of a previous process lifetime may still be running.
Init ==
    /\ dirExists = TRUE
    /\ disk \in SUBSET ComposeNames
    /\ files = disk
    /\ compose_file = get_docker(files, 0).compose_file
    /\ docker = get_docker(files, 0).docker
    /\ clients = get_docker(files, 0).clients
    /\ timer = 0
    /\ timers = <<>>
    /\ observer = "init"
    /\ now = 0
    /\ running \in {[l \in ComposeNames |-> {}],
                     [l \in ComposeNames |-> IF l = compose_file THEN Containers ELSE {}]}
    /\ calls = {}
    /\ propagated = {}
    /\ entered = {}
    /\ startLog = <<>>
    /\ lastDown = NoDown
    /\ lastEvt = -1
    /\ firesSinceEvt = 0
    /\ lastEvent = NoEvent

\* ---- on_any_event -------------------------------------------------------
file_of(e) == src_path(e)[Len(src_path(e))]
folder_of(e) == src_path(e)[Len(src_path(e)) - 1]

\* the condition without the test of the event type
Qualifies_any_type(e) ==
    /\ ~e.is_directory
    /\ file_of(e) \in ACCEPTED_FILES
    /\ folder_of(e) = service_name

\* the condition of lines 120-131
Qualifies(e) ==
    /\ ~e.is_directory
    /\ file_of(e) \in ACCEPTED_FILES
    /\ folder_of(e) = service_name
    /\ e.event_type \in ACCEPTED_EVENTS

\* Timer.cancel(): only a timer still waiting is stopped by it
cancel(ts, i) ==
    IF i # 0 /\ ts[i].st = "pending"
    THEN [ts EXCEPT ![i].st = "cancelled", ![i].deadline = 0]
    ELSE ts

NewTimer(deadline) ==
    [st |-> "pending", deadline |-> deadline, log |-> <<>>,
     dGen |-> 0, upNew |-> FALSE, upFailed |-> FALSE]

on_any_event(e) ==
    IF Qualifies(e)
    THEN /\ Len(timers) < MaxTimers
         /\ timers' = Append(cancel(timers, timer), NewTimer(now + wait_seconds))
         /\ timer' = Len(timers) + 1
         /\ lastEvt' = now
         /\ firesSinceEvt' = 0
         /\ UNCHANGED <<compose_file, docker, clients, running, calls, propagated, lastDown>>
    ELSE UNCHANGED progVars

\* what the event says happened to the first level of the directory
DiskAfter(e) ==
    IF ~e.is_directory /\ Len(e.rel) = 1 /\ e.rel[1] \in ComposeNames /\ dirExists
    THEN IF e.event_type = "created" THEN disk \cup {e.rel[1]}
         ELSE IF e.event_type = "deleted" THEN disk \ {e.rel[1]}
         ELSE disk
    ELSE disk

\* a change below the service directory; the running observer hands it to
\* on_any_event
fs_event(e) ==
    /\ observer = "running"
    /\ on_any_event(e)
    /\ disk' = DiskAfter(e)
    /\ UNCHANGED <<dirExists, files, observer, now, entered, startLog, lastEvent>>

\* the same, remembering the event (specification SpecFilter)
filter_event(e) ==
    /\ observer = "running"
    /\ on_any_event(e)
    /\ disk' = DiskAfter(e)
    /\ lastEvent' = e
    /\ UNCHANGED <<dirExists, files, observer, now, entered, startLog>>

\* a compose file or the whole service directory is deleted while nobody
\* watches, or before the event reaches the handler
fs_delete_unwatched ==
    /\ dirExists
    /\ \/ \E x \in disk : disk' = disk \ {x} /\ dirExists' = TRUE
       \/ disk' = {} /\ dirExists' = FALSE
    /\ UNCHANGED <<files, observer, now, entered, startLog, lastEvent>>
    /\ UNCHANGED progVars

\* ---- start, stop, up, down called by the owner of the handler -----------
\* the except branch of start() with the observer left watching
start_missing_watching(f) ==
    LET r == down(f)
    IN  /\ running' = r.running
        /\ calls' = r.calls
        /\ lastDown' = r.log
        /\ propagated' = IF r.raised THEN propagated \cup {"down"} ELSE propagated
        /\ startLog' = Append(startLog, "down")
        /\ observer' = "running"

\* start(): observer.schedule/start raise FileNotFoundError when the folder
\* is gone, the observer thread is not started; the except branch calls down()
start_missing(f) ==
    LET r == down(f)
    IN  /\ running' = r.running
        /\ calls' = r.calls
        /\ lastDown' = r.log
        /\ propagated' = IF r.raised THEN propagated \cup {"down"} ELSE propagated
        /\ startLog' = Append(startLog, "down")
        /\ observer' = "failed"

start ==
    /\ observer = "init"
    /\ IF dirExists
       THEN /\ observer' = "running"
            /\ UNCHANGED <<running, calls, lastDown, propagated, startLog>>
       ELSE \E f \in FailPoints : start_missing(f)
    /\ UNCHANGED <<dirExists, disk, files, compose_file, docker, clients, timer,
                   timers, now, entered, lastEvt, firesSinceEvt, lastEvent>>

\* stop() that also takes the stack down
stop_observer_down ==
    /\ observer' = "stopped"
    /\ LET r == down(-1)
       IN  /\ running' = r.running
           /\ calls' = r.calls
           /\ lastDown' = r.log
    /\ UNCHANGED <<dirExists, disk, files, now, startLog, lastEvent>>
    /\ UNCHANGED <<compose_file, docker, clients, timer, timers, propagated,
                   lastEvt, firesSinceEvt>>

\* the body of stop(): self.observer.stop() and nothing else
stop_observer ==
    /\ observer' = "stopped"
    /\ UNCHANGED <<dirExists, disk, files, now, startLog, lastEvent>>
    /\ UNCHANGED progVars

\* stop()
stop ==
    /\ stop_observer
    /\ UNCHANGED entered

\* a second stop() that fails because the observer is already stopped
stop_again_raises ==
    /\ observer = "stopped"
    /\ propagated' = propagated \cup {"stop"}
    /\ entered' = entered \cup {"stop_again"}
    /\ UNCHANGED <<dirExists, disk, files, observer, now, startLog, lastEvent>>
    /\ UNCHANGED <<compose_file, docker, clients, timer, timers, running, calls,
                   lastDown, lastEvt, firesSinceEvt>>

\* stop() called by the owner on a handler that is already stopped; the call
\* is remembered in entered
stop_again ==
    /\ observer = "stopped"
    /\ stop_observer
    /\ entered' = entered \cup {"stop_again"}

up_call ==
    /\ \E ok \in BOOLEAN :
          LET r == up(ok)
          IN  /\ running' = r.running
              /\ calls' = r.calls
              /\ propagated' = IF r.raised THEN propagated \cup {"up"} ELSE propagated
    /\ entered' = entered \cup {"up"}
    /\ UNCHANGED <<dirExists, disk, files, compose_file, docker, clients, timer,
                   timers, observer, now, startLog, lastDown, lastEvt,
                   firesSinceEvt, lastEvent>>

down_call ==
    /\ \E f \in FailPoints :
          LET r == down(f)
          IN  /\ running' = r.running
              /\ calls' = r.calls
              /\ lastDown' = r.log
              /\ propagated' = IF r.raised THEN propagated \cup {"down"} ELSE propagated
    /\ entered' = entered \cup {"down"}
    /\ UNCHANGED <<dirExists, disk, files, compose_file, docker, clients, timer,
                   timers, observer, now, startLog, lastEvt, firesSinceEvt, lastEvent>>

\* ---- the Timer thread: reload_service_compose ---------------------------
envVars == <<dirExists, disk, files, observer, now, entered, startLog, lastEvent>>

\* Timer.run(): the wait is over and the timer was not cancelled, so the
\* function is called; line 103 returns at once when there is no binding
timer_fire(i) ==
    /\ timers[i].st = "pending"
    /\ now >= timers[i].deadline
    /\ timers' = [timers EXCEPT
                     ![i].st = IF docker.gen # 0 /\ compose_file # None
                               THEN "down" ELSE "done",
                     ![i].deadline = 0]
    /\ firesSinceEvt' = firesSinceEvt + 1
    /\ UNCHANGED <<compose_file, docker, clients, timer, running, calls,
                   propagated, lastDown, lastEvt>>
    /\ UNCHANGED envVars

\* line 108: self.down(); an exception leaves reload_service_compose and
\* ends the timer thread
reload_down(i) ==
    /\ timers[i].st = "down"
    /\ \E f \in FailPoints :
          LET r == down(f)
          IN  /\ running' = r.running
              /\ calls' = r.calls
              /\ lastDown' = r.log
              /\ propagated' = IF r.raised THEN propagated \cup {"down"} ELSE propagated
              /\ timers' = [timers EXCEPT
                               ![i].st = IF r.raised THEN "aborted" ELSE "rebind",
                               ![i].log = Append(@, "down"),
                               ![i].dGen = docker.gen]
    /\ UNCHANGED <<compose_file, docker, clients, timer, lastEvt, firesSinceEvt>>
    /\ UNCHANGED envVars

\* line 109: self.docker = self._get_docker()
reload_rebind(i) ==
    /\ timers[i].st = "rebind"
    /\ LET g == get_docker(files, clients)
       IN  /\ compose_file' = g.compose_file
           /\ docker' = g.docker
           /\ clients' = g.clients
           /\ timers' = [timers EXCEPT ![i].st = "up",
                                       ![i].log = Append(@, "rebind")]
    /\ UNCHANGED <<timer, running, calls, propagated, lastDown, lastEvt, firesSinceEvt>>
    /\ UNCHANGED envVars

\* line 110: self.up()
reload_up(i) ==
    /\ timers[i].st = "up"
    /\ \E ok \in BOOLEAN :
          LET r == up(ok)
          IN  /\ running' = r.running
              /\ calls' = r.calls
              /\ propagated' = IF r.raised THEN propagated \cup {"up"} ELSE propagated
              /\ timers' = [timers EXCEPT
                               ![i].st = IF r.raised THEN "aborted" ELSE "clear",
                               ![i].log = Append(@, "up"),
                               ![i].upNew = docker.gen > timers[i].dGen,
                               ![i].dGen = 0,
                               ![i].upFailed = r.failed]
    /\ UNCHANGED <<compose_file, docker, clients, timer, lastDown, lastEvt, firesSinceEvt>>
    /\ UNCHANGED envVars

\* line 112: self.timer = None
reload_clear(i) ==
    /\ timers[i].st = "clear"
    /\ timer' = 0
    /\ timers' = [timers EXCEPT ![i].st = "done", ![i].log = Append(@, "clear")]
    /\ UNCHANGED <<compose_file, docker, clients, running, calls, propagated,
                   lastDown, lastEvt, firesSinceEvt>>
    /\ UNCHANGED envVars

\* a second passes; a timer whose wait is over fires before the clock moves
\* on, and the clock does not move between lines 136 and 137
tick ==
    /\ now < MaxTime
    /\ \A i \in 1..Len(timers) : ~(timers[i].st = "pending" /\ timers[i].deadline <= now)
    /\ \A i \in 1..Len(timers) : timers[i].st # "created"
    /\ now' = now + 1
    /\ UNCHANGED <<dirExists, disk, files, observer, entered, startLog, lastEvent>>
    /\ UNCHANGED progVars

\* the handler under the observer thread and the timer threads
Next ==
    \/ start
    \/ stop
    \/ \E e \in FirstLevelEvents : fs_event(e)
    \/ \E i \in 1..Len(timers) : timer_fire(i)
    \/ \E i \in 1..Len(timers) : reload_down(i)
    \/ \E i \in 1..Len(timers) : reload_rebind(i)
    \/ \E i \in 1..Len(timers) : reload_up(i)
    \/ \E i \in 1..Len(timers) : reload_clear(i)
    \/ tick

Spec == Init /\ [][Next]_vars

\* the handler driven by its owner: start, stop, up and down, with the
\* directory changing underneath; the clock stands still, so no timer fires
NextOwner ==
    \/ start
    \/ stop
    \/ stop_again
    \/ up_call
    \/ down_call
    \/ fs_delete_unwatched
    \/ \E e \in FirstLevelEvents : fs_event(e)

SpecOwner == Init /\ [][NextOwner]_vars

\* the event filter alone: the handler is driven with every event and the
\* event is remembered
NextFilter ==
    \/ start
    \/ stop
    \/ \E e \in Events : filter_event(e)

SpecFilter == Init /\ [][NextFilter]_vars

\* ---- _get_docker alone --------------------------------------------------
\* the constructor run on a directory that holds any of the names an event
\* can carry, not only compose files
InitResolve ==
    /\ dirExists = TRUE
    /\ files \in SUBSET FileNames
    /\ disk = files \cap ComposeNames
    /\ compose_file = get_docker(files, 0).compose_file
    /\ docker = get_docker(files, 0).docker
    /\ clients = get_docker(files, 0).clients
    /\ timer = 0
    /\ timers = <<>>
    /\ observer = "init"
    /\ now = 0
    /\ running \in {[l \in ComposeNames |-> {}],
                     [l \in ComposeNames |-> IF l = compose_file THEN Containers ELSE {}]}
    /\ calls = {}
    /\ propagated = {}
    /\ entered = {}
    /\ startLog = <<>>
    /\ lastDown = NoDown
    /\ lastEvt = -1
    /\ firesSinceEvt = 0
    /\ lastEvent = NoEvent

\* self.docker = self._get_docker(), the statement of lines 46 and 109: one
\* more resolution over self.files; a reload makes one, so a behaviour holds
\* at most MaxTimers of them after the constructor's
rebind ==
    /\ clients <= MaxTimers
    /\ LET g == get_docker(files, clients)
       IN  /\ compose_file' = g.compose_file
           /\ docker' = g.docker
           /\ clients' = g.clients
    /\ UNCHANGED <<timer, timers, running, calls, propagated, lastDown, lastEvt,
                   firesSinceEvt>>
    /\ UNCHANGED envVars

NextResolve ==
    \/ rebind
    \/ up_call
    \/ down_call

SpecResolve == InitResolve /\ [][NextResolve]_vars

\* ---- on_any_event statement by statement --------------------------------
\* The observer thread and the timer threads share self.timer without a
\* lock, so a timer thread can run between two statements of the handler.
\* Lines 132-136 of a qualifying event: cancel and clear the slot, then
\* self.timer = Timer(...); the Timer exists but is not started.  The
\* observer thread handles one event at a time.
event_create(e) ==
    /\ observer = "running"
    /\ Qualifies(e)
    /\ Len(timers) < MaxTimers
    /\ now + wait_seconds <= MaxTime
    /\ \A i \in 1..Len(timers) : timers[i].st # "created"
    /\ timers' = Append(cancel(timers, timer), [NewTimer(0) EXCEPT !.st = "created"])
    /\ timer' = Len(timers) + 1
    /\ lastEvt' = now
    /\ firesSinceEvt' = 0
    /\ disk' = DiskAfter(e)
    /\ UNCHANGED <<compose_file, docker, clients, running, calls, propagated, lastDown>>
    /\ UNCHANGED <<dirExists, files, observer, now, entered, startLog, lastEvent>>

\* line 137: self.timer.start() reads the slot again; if a reload has put
\* None there (line 112) the call raises AttributeError in the observer
\* thread and the Timer just created is never started
event_start ==
    /\ \E i \in 1..Len(timers) :
          /\ timers[i].st = "created"
          /\ IF timer = 0
             THEN /\ timers' = [timers EXCEPT ![i].st = "lost"]
                  /\ propagated' = propagated \cup {"on_any_event"}
             ELSE /\ timers' = [timers EXCEPT ![timer].st = "pending",
                                              ![timer].deadline = now + wait_seconds]
                  /\ UNCHANGED propagated
    /\ UNCHANGED <<compose_file, docker, clients, timer, running, calls, lastDown,
                   lastEvt, firesSinceEvt>>
    /\ UNCHANGED envVars

\* the steps of the timer threads
TimerThreads ==
    \/ \E i \in 1..Len(timers) : timer_fire(i)
    \/ \E i \in 1..Len(timers) : reload_down(i)
    \/ \E i \in 1..Len(timers) : reload_rebind(i)
    \/ \E i \in 1..Len(timers) : reload_up(i)
    \/ \E i \in 1..Len(timers) : reload_clear(i)

NextFair ==
    \/ start
    \/ stop
    \/ \E e \in FirstLevelEvents : event_create(e)
    \/ event_start
    \/ TimerThreads
    \/ tick

\* every thread that can take a step takes one, and time passes
SpecFair ==
    /\ Init
    /\ [][NextFair]_vars
    /\ WF_vars(event_start)
    /\ WF_vars(TimerThreads)
    /\ WF_vars(tick)

\* ---- claims -------------------------------------------------------------
Pending(i) == timers[i].st = "pending"
PendingTimers == {i \in 1..Len(timers) : Pending(i)}

\* C1: debounce coalescing.  Every timer fire, i.e. every execution of
\* reload_service_compose, is the first one since the last qualifying event
\* and happens wait_seconds after that last event, not after an earlier one:
\* a burst of events less than wait_seconds apart gets exactly one reload.
C1_DebounceCoalescing ==
    [][\A i \in 1..Len(timers) :
          timer_fire(i) => (firesSinceEvt = 0 /\ now = lastEvt + wait_seconds)]_vars

\* C2: at most one debounce timer is pending (started, not cancelled, not
\* yet fired) in every reachable state.
C2_AtMostOnePending == Cardinality(PendingTimers) <= 1

\* C3: stop() cancels the pending timer: once stop() has returned, no timer
\* fire starts a reload (one that goes on to down(), rebind and up()), also
\* when the timer was armed shortly before stop().
C3_NoReloadAfterStop ==
    [][observer = "stopped"
          => \A i \in 1..Len(timers) : ~(timer_fire(i) /\ timers'[i].st = "down")]_vars

\* C4: every debounce fire executes down(), then _get_docker(), then up(), in
\* that order, and up() uses a binding resolved after down(), never the one
\* down() used: a reload that has ended has executed exactly that sequence.
ReloadSteps(i) == SelectSeq(timers[i].log, LAMBDA x : x \in {"down", "rebind", "up"})
C4_ReloadSequence ==
    \A i \in 1..Len(timers) :
       timers[i].st \in {"done", "aborted"}
          => /\ ReloadSteps(i) = <<"down", "rebind", "up">>
             /\ timers[i].upNew

\* C5: filter correctness.  An event on a file below the first level of the
\* service directory, whatever the intermediate directories are called,
\* leaves the timer slot and the timers alone; a created / modified / deleted
\* event on an accepted file directly under the service root arms a timer
\* for now + wait_seconds.
Nested(e) == Len(e.rel) > 1
FirstLevelTrigger(e) ==
    /\ ~e.is_directory
    /\ Len(e.rel) = 1
    /\ e.rel[1] \in ACCEPTED_FILES
    /\ e.event_type \in ACCEPTED_EVENTS
C5_FilterCorrectness ==
    [][\A e \in Events :
          filter_event(e)
             => /\ Nested(e) => UNCHANGED <<timer, timers>>
                /\ FirstLevelTrigger(e)
                      => /\ timer' = Len(timers) + 1
                         /\ Len(timers') = Len(timers) + 1
                         /\ timers'[timer'].st = "pending"
                         /\ timers'[timer'].deadline = now + wait_seconds]_vars

\* C6: no-binding safety.  A handler constructed over a directory without a
\* compose file has no docker client, and its up() and down() issue no
\* orchestration call, raise nothing and record no teardown.
Unbound == get_compose_file_name(files) = None
C6_NoBindingSafety ==
    Unbound => /\ docker = NoDocker
               /\ calls = {}
               /\ propagated = {}
               /\ lastDown = NoDown
C6_Witness == Unbound /\ entered = {"up", "down"} /\ calls = {}

\* C7: up() never propagates a failure.  No exception leaves up(); a reload
\* whose up() failed goes on to line 112 and ends having cleared the timer
\* slot, as one whose up() succeeded does.
C7_UpNeverPropagates ==
    /\ "up" \notin propagated
    /\ \A i \in 1..Len(timers) :
          timers[i].upFailed
             => /\ timers[i].st \in {"clear", "done"}
                /\ timers[i].st = "done"
                      => timers[i].log = <<"down", "rebind", "up", "clear">>
C7_Witness ==
    \E i \in 1..Len(timers) :
       /\ timers[i].upFailed
       /\ timers[i].st = "done"
       /\ "compose_up" \in calls

\* C8: a failure of ps, stop, remove or prune inside down() does not leave
\* down(): no exception propagates out of it and no reload is cut short.
C8_DownFailureCaught ==
    /\ "down" \notin propagated
    /\ \A i \in 1..Len(timers) : timers[i].st # "aborted"

\* C9: deletion race.  A down() that runs after the bound compose file (or
\* the whole directory) was deleted still filters on the label of the bound
\* file; when the orchestration tool reports no failure it stops and removes
\* every container returned, prunes and returns normally.
C9_DeletionRace ==
    lastDown.fileGone
       => /\ lastDown.bound \in ComposeNames
          /\ lastDown.label = Label(lastDown.bound)
          /\ lastDown.failAt = -1
                => /\ ~lastDown.raised
                   /\ lastDown.stopTried = lastDown.returned
                   /\ lastDown.removed = lastDown.returned
                   /\ lastDown.pruneTried
C9_Witness ==
    /\ lastDown.fileGone
    /\ lastDown.failAt = -1
    /\ lastDown.returned = Containers
    /\ lastDown.removed = Containers
    /\ running[lastDown.bound] = {}

\* C10: start() on a directory that no longer exists calls down() exactly
\* once and nothing else, and the handler is left not watching: no event is
\* handled afterwards, no timer exists.  A start() that succeeds calls nothing.
C10_StartMissingDir ==
    /\ observer = "failed" => startLog = <<"down">>
    /\ startLog # <<>>
          => /\ startLog = <<"down">>
             /\ observer \in {"failed", "stopped"}
             /\ timer = 0
             /\ timers = <<>>
             /\ lastEvt = -1
C10_Witness ==
    /\ observer = "failed"
    /\ startLog = <<"down">>
    /\ lastDown.removed = Containers

\* what the service directory holds at this moment
DirNow == IF dirExists THEN disk ELSE {}

\* C11: binding resolution is a function of the directory contents at the
\* time of the call: the compose file a reload binds to is the one
\* _get_compose_file_name finds among the files in the directory when the
\* reload re-resolves, and there is a client exactly when there is such a file.
C11_BindingFromDirectoryNow ==
    [][\A i \in 1..Len(timers) :
          reload_rebind(i)
             => /\ compose_file' = get_compose_file_name(DirNow)
                /\ (docker'.gen # 0) <=> (get_compose_file_name(DirNow) # None)]_vars

\* C12: resolution takes the first match in a fixed order: when both
\* docker-compose.yaml and docker-compose.yml are among the directory entries
\* the binding is docker-compose.yaml after the constructor's resolution and
\* after every later one, and .env is never the bound file.
C12_FirstMatch ==
    /\ ComposeNames \subseteq files
          => compose_file = "docker-compose.yaml" /\ docker.file = "docker-compose.yaml"
    /\ compose_file # ".env"
    /\ docker.file # ".env"

\* both names and .env in the directory, resolved three times
C12_Witness ==
    /\ ComposeNames \cup {".env"} \subseteq files
    /\ clients >= 3
    /\ compose_file = "docker-compose.yaml"

\* C13: stop() takes a watching handler to stopped by stopping the watcher
\* only: the step that stops a running observer issues no orchestration call,
\* runs no down() and leaves the binding and the stack as they were.
C13_StopFrame ==
    [][(observer = "running" /\ observer' = "stopped")
          => UNCHANGED <<compose_file, docker, clients, calls, running, lastDown,
                         propagated>>]_vars

\* stopped while a timer was armed and the stack was up: nothing was called
C13_Witness ==
    /\ observer = "stopped"
    /\ timer # 0
    /\ docker.gen # 0
    /\ running[compose_file] = Containers
    /\ calls = {}
    /\ entered = {}

\* C14: stop() is idempotent: a stop() on a handler that is already stopped
\* raises nothing, runs no teardown and leaves the state as the first stop()
\* left it.
C14_StopIdempotent ==
    [][("stop_again" \in entered' /\ "stop_again" \notin entered)
          => /\ observer = "stopped"
             /\ UNCHANGED <<dirExists, disk, files, observer, now, startLog>>
             /\ UNCHANGED progVars]_vars

\* stopped twice with a timer armed and the stack up
C14_Witness ==
    /\ "stop_again" \in entered
    /\ observer = "stopped"
    /\ timer # 0
    /\ docker.gen # 0
    /\ running[compose_file] = Containers
    /\ calls = {}
    /\ propagated = {}

\* the timer threads that are inside reload_service_compose, past its guard
Reloading == {i \in 1..Len(timers) : timers[i].st \in {"down", "rebind", "up", "clear"}}

\* C15: reload executions are serialized: at no moment are two timer
\* threads inside the down / rebind / up steps of reload_service_compose.
C15_ReloadsSerialized == Cardinality(Reloading) <= 1

\* C16: in down() the containers are handled independently: when the stop or
\* the remove of one container fails, stop and remove are still attempted on
\* every other container the listing returned, and the volume prune runs.
C16_PerContainerIsolation ==
    LET n == Cardinality(lastDown.returned)
        k == (lastDown.failAt + 1) \div 2
    IN  (lastDown.failAt >= 1 /\ lastDown.failAt <= 2 * n)
           => /\ \A j \in 1..n :
                    j # k => /\ Nth(lastDown.returned, j) \in lastDown.stopTried
                             /\ Nth(lastDown.returned, j) \in lastDown.removeTried
              /\ lastDown.pruneTried

\* C17: an absent binding is recoverable: for a handler constructed without
\* a compose file, once a compose file stands in the directory and the timer
\* armed by the last event has fired and finished, the binding is present and
\* up() has issued the start.  (Every change of the directory arms a timer, so
\* the file was there when the newest timer fired.)
C17_BindingRecovers ==
    (/\ Unbound
     /\ DirNow # {}
     /\ Len(timers) > 0
     /\ timers[Len(timers)].st = "done")
        => /\ docker.gen # 0
           /\ compose_file \in DirNow
           /\ "compose_up" \in calls

\* an event the filter must drop for one of the three reasons: its target is
\* a directory, its file name is not an accepted one, its kind is not one of
\* created / modified / deleted
Dropped(e) ==
    \/ e.is_directory
    \/ file_of(e) \notin ACCEPTED_FILES
    \/ e.event_type \notin ACCEPTED_EVENTS

\* C18: a non-qualifying event causes no transition: the step that delivers
\* it leaves the timer slot, every timer (so a pending timer's deadline) and
\* the binding unchanged and issues no orchestration call.
C18_NonQualifyingNoTransition ==
    [][(lastEvent' # NoEvent /\ Dropped(lastEvent'))
          => UNCHANGED <<timer, timers, compose_file, docker, clients, calls,
                         running, lastDown, propagated>>]_vars

\* a moved event on a compose file directly under the root, delivered while
\* one timer is armed: the timer is still the only one, pending, same deadline
C18_Witness ==
    /\ lastEvent # NoEvent
    /\ ~lastEvent.is_directory
    /\ Len(lastEvent.rel) = 1
    /\ file_of(lastEvent) \in ComposeNames
    /\ lastEvent.event_type = "moved"
    /\ Len(timers) = 1
    /\ timer = 1
    /\ Pending(1)
    /\ timers[1].deadline = now + wait_seconds

\* C19: the timer slot after a reload.  (a) Once a timer has fired and its
\* run of reload_service_compose is over, with no qualifying event since, the
\* slot is empty, bound or not: the slot never holds a timer that is done.
\* (b) The end of a reload does not empty the slot of a timer armed during
\* that reload: while a timer is pending the slot is not empty.
C19_SlotAfterReload ==
    /\ timer # 0 => timers[timer].st # "done"
    /\ PendingTimers # {} => timer # 0

\* part (b) of C19 alone, as the step that ends a reload
C19_ClearKeepsNewer ==
    [][\A i \in 1..Len(timers) :
          reload_clear(i) => (timer \in {0, i} \/ timer' = timer)]_vars

\* C20: no lost change: for a bound handler that is started and not stopped
\* and whose orchestration calls succeed, every qualifying event is
\* eventually followed by a reload whose down() starts after the event: once
\* the handler has created the event's Timer, some timer thread comes to
\* stand at the call of down(), unless the handler is stopped or an
\* orchestration call fails.
C20_NoLostChange ==
    (\E i \in 1..Len(timers) : timers[i].st = "created" /\ docker.gen # 0)
        ~> \/ \E j \in 1..Len(timers) : timers[j].st = "down"
           \/ observer # "running"
           \/ \E j \in 1..Len(timers) : timers[j].st = "aborted" \/ timers[j].upFailed
====
